---------------------------- MODULE Spec2Model ----------------------------
(***************************************************************************)
(* A model of the file-browser example of CloudCannon/javascript-api:      *)
(*   - CodeEditor (components/CodeEditor.tsx): load, edit, save            *)
(*   - useCloudCannonAPI (hooks/useCloudCannonAPI.ts): discovery, init,    *)
(*     list fetches and change listeners                                   *)
(*   - CollectionBrowser (components/CollectionBrowser.tsx): listeners     *)
(*   - buildFileTree (components/FileTree.tsx): path list -> sorted forest *)
(* React state is modelled by one variable per useState cell; an action is *)
(* one event handler, effect or promise continuation together with the     *)
(* effects the resulting render runs.                                      *)
(***************************************************************************)
EXTENDS Integers, Sequences, FiniteSets, TLC

(***************************************************************************)
(* Bounds                                                                  *)
(***************************************************************************)
\* file records the host hands out: 1..NumFiles
NumFiles == 2
\* buffer values: 0 is the empty string, 1..MaxContent other texts
MaxContent == 2
\* file.get() calls in flight at once
MaxGets == 2
\* onSave() calls in flight at once
MaxSaves == 2
\* 2-second timers of handleSave not yet fired
MaxTimers == 1

NoFile == 0
FileIds == 1..NumFiles
Contents == 0..MaxContent
EmptyText == 0

(***************************************************************************)
(* CodeEditor state                                                        *)
(***************************************************************************)
VARIABLES
  selectedFile,     \* App: useState selectedFile, the CodeEditor's file prop
  content,          \* useState content
  originalContent,  \* useState originalContent
  isLoading,        \* useState isLoading
  error,            \* useState error: "null", or which call's message it holds
  isSaving,         \* useState isSaving
  saveStatus,       \* useState saveStatus: "null" | "saved" | "unsaved" | "saving"
  pendingGets,      \* file.get() promises not yet settled, in call order
  pendingSaves,     \* onSave(file, content) promises not yet settled; edited is history
  timers,           \* setTimeout callbacks of handleSave not yet run, with their closure
  command,          \* the Ctrl/Cmd+S command of the mounted editor widget
  loadedFrom,       \* history: the file whose get() result was last written to the buffer
  currentLoaded,    \* history: a get() of the current selection has resolved
  ev                \* history: the last step taken

edVars == <<selectedFile, content, originalContent, isLoading, error, isSaving,
            saveStatus, pendingGets, pendingSaves, timers, command, loadedFrom,
            currentLoaded, ev>>

\* part_002:65
hasUnsavedChanges == content # originalContent

\* part_002:142-175: the branch of the render that shows the header and the widget
EditorRendered == selectedFile # NoFile /\ error = "null" /\ ~isLoading

\* part_002:212-216: the Save button is rendered and not disabled
SaveButtonEnabled == EditorRendered /\ hasUnsavedChanges /\ ~isSaving

\* what handleSave of the current render has closed over (part_002:112-122)
CurrentClosure ==
  [bound |-> TRUE, file |-> selectedFile, content |-> content,
   hasUnsavedChanges |-> hasUnsavedChanges, isSaving |-> isSaving,
   saveStatus |-> saveStatus]

NoCommand ==
  [bound |-> FALSE, file |-> NoFile, content |-> EmptyText,
   hasUnsavedChanges |-> FALSE, isSaving |-> FALSE, saveStatus |-> "null"]

\* ev: op, the step; file, the file it concerned; content, the buffer before it;
\* cur, its request was started under the current selection; pre, currentLoaded
\* before it (for a save request: the editor was Unsaved and not Saving);
\* pending, a save was pending before it; clean, the buffer equalled the
\* baseline before it; issued, it invoked onSave; called, it invoked onSave with
\* the selected file and the buffer; changed, it changed buffer, baseline or
\* status; passed, the buffer value a save request handed to onSave or the
\* text file.get() returned; edited,
\* the buffer was edited while that request was pending
NoEvent ==
  [op |-> "init", file |-> NoFile, content |-> EmptyText, cur |-> FALSE,
   pre |-> FALSE, pending |-> FALSE, clean |-> FALSE, issued |-> FALSE,
   called |-> FALSE, changed |-> FALSE, passed |-> EmptyText, edited |-> FALSE]

\* part_002:97-101: the effect that follows every render
UnsavedEffect(status, c, o) ==
  IF c # o /\ status # "saving" THEN "unsaved" ELSE status

\* the widget (and with it the command) lives only while its branch is rendered
KeepCommand(f, e, l) ==
  IF f # NoFile /\ e = "null" /\ ~l THEN command ELSE NoCommand

RemoveAt(s, i) == SubSeq(s, 1, i - 1) \o SubSeq(s, i + 1, Len(s))

Stale(s) == [i \in 1..Len(s) |-> [s[i] EXCEPT !.cur = FALSE]]

Edited(s) == [i \in 1..Len(s) |-> [s[i] EXCEPT !.edited = TRUE]]

EdInit ==
  /\ selectedFile = NoFile
  /\ content = EmptyText
  /\ originalContent = EmptyText
  /\ isLoading = FALSE
  /\ error = "null"
  /\ isSaving = FALSE
  /\ saveStatus = "null"
  /\ pendingGets = <<>>
  /\ pendingSaves = <<>>
  /\ timers = <<>>
  /\ command = NoCommand
  /\ loadedFrom = NoFile
  /\ currentLoaded = FALSE
  /\ ev = NoEvent

\* App.handleFileSelect, then the load effect up to its await (part_002:67-81)
SelectFile(f) ==
  /\ f # selectedFile
  /\ Len(pendingGets) < MaxGets
  /\ selectedFile' = f
  /\ isLoading' = TRUE
  /\ error' = "null"
  /\ pendingGets' = Append(Stale(pendingGets), [file |-> f, cur |-> TRUE])
  /\ pendingSaves' = Stale(pendingSaves)
  /\ timers' = Stale(timers)
  /\ command' = NoCommand
  /\ currentLoaded' = FALSE
  /\ saveStatus' = UnsavedEffect(saveStatus, content, originalContent)
  /\ ev' = [NoEvent EXCEPT !.op = "select", !.file = f, !.content = content]
  /\ UNCHANGED <<content, originalContent, isSaving, loadedFrom>>

\* loadFileContent after file.get() resolved with c (part_002:81-84, 89-91)
GetResolveKeepsBaseline(i, c) ==
  LET g == pendingGets[i] IN
  /\ pendingGets' = RemoveAt(pendingGets, i)
  /\ content' = c
  /\ saveStatus' = UnsavedEffect("saved", c, originalContent)
  /\ isLoading' = FALSE
  /\ command' = KeepCommand(selectedFile, error, FALSE)
  /\ currentLoaded' = (currentLoaded \/ g.cur)
  /\ ev' = [NoEvent EXCEPT !.op = "getResolve", !.file = g.file, !.content = content,
                            !.cur = g.cur, !.pre = currentLoaded, !.passed = c,
                            !.changed = (<<c, "saved">> # <<content, saveStatus>>)]
  /\ loadedFrom' = g.file
  /\ UNCHANGED <<selectedFile, originalContent, error, isSaving, pendingSaves, timers>>

GetResolve(i, c) ==
  LET g == pendingGets[i] IN
  /\ pendingGets' = RemoveAt(pendingGets, i)
  /\ content' = c
  /\ originalContent' = c
  /\ saveStatus' = UnsavedEffect("saved", c, c)
  /\ isLoading' = FALSE
  /\ command' = KeepCommand(selectedFile, error, FALSE)
  /\ currentLoaded' = (currentLoaded \/ g.cur)
  /\ ev' = [NoEvent EXCEPT !.op = "getResolve", !.file = g.file, !.content = content,
                            !.cur = g.cur, !.pre = currentLoaded, !.passed = c,
                            !.changed = (<<c, c, "saved">> #
                                         <<content, originalContent, saveStatus>>)]
  /\ loadedFrom' = g.file
  /\ UNCHANGED <<selectedFile, error, isSaving, pendingSaves, timers>>

\* loadFileContent after file.get() rejected (part_002:85-91)
GetReject(i) ==
  LET g == pendingGets[i] IN
  /\ pendingGets' = RemoveAt(pendingGets, i)
  /\ error' = "load"
  /\ isLoading' = FALSE
  /\ command' = NoCommand
  /\ saveStatus' = UnsavedEffect(saveStatus, content, originalContent)
  /\ ev' = [NoEvent EXCEPT !.op = "getReject", !.file = g.file, !.content = content,
                            !.cur = g.cur, !.pre = currentLoaded]
  /\ UNCHANGED <<selectedFile, content, originalContent, isSaving, pendingSaves,
                 timers, loadedFrom, currentLoaded>>

\* handleEditorDidMount: the widget calls it once, after the render that shows
\* it; the command keeps the handleSave of that render (part_002:103-110)
EditorDidMount ==
  /\ EditorRendered
  /\ ~command.bound
  /\ command' = CurrentClosure
  /\ ev' = [NoEvent EXCEPT !.op = "mount", !.file = selectedFile, !.content = content]
  /\ UNCHANGED <<selectedFile, content, originalContent, isLoading, error, isSaving,
                 saveStatus, pendingGets, pendingSaves, timers, loadedFrom,
                 currentLoaded>>

\* the widget's onChange (part_002:230)
Edit(c) ==
  /\ command.bound
  /\ c # content
  /\ content' = c
  /\ saveStatus' = UnsavedEffect(saveStatus, c, originalContent)
  /\ pendingSaves' = Edited(pendingSaves)
  /\ timers' = Edited(timers)
  /\ ev' = [NoEvent EXCEPT !.op = "edit", !.file = selectedFile, !.content = content]
  /\ UNCHANGED <<selectedFile, originalContent, isLoading, error, isSaving,
                 pendingGets, command, loadedFrom, currentLoaded>>

\* handleSave as closed over by cl, up to its await (part_002:112-122);
\* op names the trigger
HandleSaveSkips(cl) == cl.file = NoFile \/ ~cl.hasUnsavedChanges \/ cl.isSaving

HandleSave(cl, op) ==
  LET pre == saveStatus = "unsaved" /\ hasUnsavedChanges /\ ~isSaving
      e == [NoEvent EXCEPT !.op = op, !.file = selectedFile, !.content = content,
                           !.pre = pre, !.pending = (pendingSaves # <<>>),
                           !.clean = ~hasUnsavedChanges]
  IN
  IF HandleSaveSkips(cl)
  THEN /\ ev' = e
       /\ UNCHANGED <<selectedFile, content, originalContent, isLoading, error,
                      isSaving, saveStatus, pendingGets, pendingSaves, timers,
                      command, loadedFrom, currentLoaded>>
  ELSE /\ Len(pendingSaves) < MaxSaves
       /\ isSaving' = TRUE
       /\ saveStatus' = "saving"
       /\ error' = "null"
       /\ pendingSaves' = Append(pendingSaves,
                                 [file |-> cl.file, content |-> cl.content, cur |-> TRUE,
                                  edited |-> FALSE, saveStatus |-> cl.saveStatus,
                                  hasUnsavedChanges |-> cl.hasUnsavedChanges])
       /\ ev' = [e EXCEPT !.issued = TRUE, !.passed = cl.content,
                           !.called = (cl.file = selectedFile /\ cl.content = content)]
       /\ UNCHANGED <<selectedFile, content, originalContent, isLoading,
                      pendingGets, timers, command, loadedFrom, currentLoaded>>

\* a click on the Save button runs the handleSave of the current render
ClickSave ==
  /\ SaveButtonEnabled
  /\ HandleSave(CurrentClosure, "click")

\* Ctrl/Cmd+S in the widget runs the handleSave bound at mount
PressShortcut ==
  /\ command.bound
  /\ HandleSave(command, "shortcut")

\* a continuation that takes the buffer of the time onSave settles as saved
SaveResolveMarksBufferSaved(i) ==
  LET s == pendingSaves[i] IN
  /\ Len(timers) < MaxTimers
  /\ pendingSaves' = RemoveAt(pendingSaves, i)
  /\ timers' = Append(timers, [saveStatus |-> s.saveStatus,
                               hasUnsavedChanges |-> s.hasUnsavedChanges,
                               cur |-> s.cur, edited |-> s.edited])
  /\ originalContent' = content
  /\ isSaving' = FALSE
  /\ saveStatus' = UnsavedEffect("saved", content, content)
  /\ ev' = [NoEvent EXCEPT !.op = "saveResolve", !.file = s.file, !.content = content,
                            !.cur = s.cur, !.pre = currentLoaded, !.passed = s.content,
                            !.edited = s.edited,
                            !.changed = (<<content, saveStatus'>> #
                                         <<originalContent, saveStatus>>)]
  /\ UNCHANGED <<selectedFile, content, isLoading, error, pendingGets, command,
                 loadedFrom, currentLoaded>>

\* handleSave after onSave resolved (part_002:122-131, 137-139): the timer's
\* callback reads saveStatus and hasUnsavedChanges of the render handleSave
\* was created in
SaveResolve(i) ==
  LET s == pendingSaves[i] IN
  /\ Len(timers) < MaxTimers
  /\ pendingSaves' = RemoveAt(pendingSaves, i)
  /\ timers' = Append(timers, [saveStatus |-> s.saveStatus,
                               hasUnsavedChanges |-> s.hasUnsavedChanges,
                               cur |-> s.cur, edited |-> s.edited])
  /\ originalContent' = s.content
  /\ isSaving' = FALSE
  /\ saveStatus' = UnsavedEffect("saved", content, s.content)
  /\ ev' = [NoEvent EXCEPT !.op = "saveResolve", !.file = s.file, !.content = content,
                            !.cur = s.cur, !.pre = currentLoaded, !.passed = s.content,
                            !.edited = s.edited,
                            !.changed = (<<s.content, saveStatus'>> #
                                         <<originalContent, saveStatus>>)]
  /\ UNCHANGED <<selectedFile, content, isLoading, error, pendingGets, command,
                 loadedFrom, currentLoaded>>

\* the callback of setTimeout(..., 2000) runs (part_002:127-131)
TimerFires(i) ==
  LET t == timers[i]
      status == IF t.saveStatus = "saved" /\ ~t.hasUnsavedChanges
                THEN "null" ELSE saveStatus
  IN
  /\ timers' = RemoveAt(timers, i)
  /\ saveStatus' = UnsavedEffect(status, content, originalContent)
  /\ ev' = [NoEvent EXCEPT !.op = "timer", !.file = selectedFile, !.content = content,
                            !.cur = t.cur, !.edited = t.edited,
                            !.clean = ~hasUnsavedChanges,
                            !.changed = (saveStatus' # saveStatus)]
  /\ UNCHANGED <<selectedFile, content, originalContent, isLoading, error, isSaving,
                 pendingGets, pendingSaves, command, loadedFrom, currentLoaded>>

\* handleSave after onSave rejected (part_002:132-139)
SaveReject(i) ==
  LET s == pendingSaves[i] IN
  /\ pendingSaves' = RemoveAt(pendingSaves, i)
  /\ error' = "save"
  /\ isSaving' = FALSE
  /\ saveStatus' = UnsavedEffect("unsaved", content, originalContent)
  /\ command' = NoCommand
  /\ ev' = [NoEvent EXCEPT !.op = "saveReject", !.file = s.file, !.content = content,
                            !.cur = s.cur, !.pre = currentLoaded, !.passed = s.content,
                            !.edited = s.edited,
                            !.changed = (saveStatus' # saveStatus)]
  /\ UNCHANGED <<selectedFile, content, originalContent, isLoading, pendingGets,
                 timers, loadedFrom, currentLoaded>>



(***************************************************************************)
(* useCloudCannonAPI state                                                 *)
(***************************************************************************)
\* router objects the host may install or announce: 1..NumRouters
NumRouters == 2
\* payloads of files() and collections(): 0 is the empty list
MaxList == 1
\* runs of initializeAPI whose promise has not settled or whose listeners live
MaxInits == 1
\* runs of the hook's handleFileChange in flight
MaxHandlers == 2
\* runs of refreshFiles in flight
MaxRefreshes == 1

NoRouter == 0
Routers == 1..NumRouters
Lists == 0..MaxList
Events == {"change", "create", "delete"}

VARIABLES
  hookMounted,      \* "no" before the first render, "yes", "gone" after unmount
  winRouter,        \* window.CloudCannonAPI when the hook mounts
  CloudCannonAPI,   \* useState CloudCannonAPI (the router)
  api,              \* useState api; useVersion of router r returns API object r
  hookIsLoading,    \* useState isLoading
  hookError,        \* useState error: "null" or which failure's message it holds
  files,            \* useState files (a payload)
  collections,      \* useState collections (a payload)
  docListeners,     \* listeners for cloudcannon:load on the document
  apiListeners,     \* per API object and event, the handlers registered
  inits,            \* runs of initializeAPI: [api, pc, live]
  handlers,         \* runs of handleFileChange: [api, pc]
  refreshes,        \* runs of refreshFiles awaiting files(): [api]
  hev,              \* history: the last step of the hook
  uncaught          \* call sites whose promise rejected with nothing to catch it

hookVars == <<hookMounted, winRouter, CloudCannonAPI, api, hookIsLoading, hookError,
              files, collections, docListeners, apiListeners, inits, handlers,
              refreshes, hev>>

\* hev: op, the step; router, the router of a run of the init effect or the
\* API object notified; outcome, what useVersion('v1') did in that run
\* ("absent": there was no router to ask); had, the router held before it; p,
\* the payload a fetch resolved with; was, the files list before a handler's
\* files() resolved; n, the runs of the step's kind in flight before it; i,
\* the position of the run that continued; late, a fetch started after this
\* one had resolved before it
NoHookEvent ==
  [op |-> "init", router |-> 0, outcome |-> "none", had |-> 0, p |-> 0,
   was |-> 0, n |-> 0, i |-> 0, late |-> FALSE]

NoListeners == [e \in Events |-> 0]

\* v1API.addEventListener for the three events (part_002:365-367)
AddListeners(ls, a) == [ls EXCEPT ![a] = [e \in Events |-> ls[a][e] + 1]]

\* the cleanup function initializeAPI returns (part_002:370-374)
RemoveListeners(ls, a) ==
  [ls EXCEPT ![a] = [e \in Events |-> IF ls[a][e] > 0 THEN ls[a][e] - 1 ELSE 0]]

\* a state setter: React drops the update of an unmounted component
SetState(old, new) == IF hookMounted = "yes" THEN new ELSE old

HookInit ==
  /\ hookMounted = "no"
  /\ winRouter \in {NoRouter} \cup Routers
  /\ CloudCannonAPI = NoRouter
  /\ api = NoRouter
  /\ hookIsLoading = TRUE
  /\ hookError = "null"
  /\ files = 0
  /\ collections = 0
  /\ docListeners = 0
  /\ apiListeners = [a \in Routers |-> NoListeners]
  /\ inits = <<>>
  /\ handlers = <<>>
  /\ refreshes = <<>>
  /\ hev = NoHookEvent

\* the cleanup of the init effect: cleanup.then(fn => fn && fn()) (part_002:388-392).
\* A run that is listening has its listeners removed now; a run still awaiting
\* is no longer live and removes them when it settles.
CleanedUp(ts) ==
  LET kept == SelectSeq(ts, LAMBDA t : ~(t.live /\ t.pc = "listening"))
  IN [i \in 1..Len(kept) |-> [kept[i] EXCEPT !.live = FALSE]]

ListenersAfterCleanup(ls, ts) ==
  IF \E i \in 1..Len(ts) : ts[i].live /\ ts[i].pc = "listening"
  THEN RemoveListeners(ls, ts[CHOOSE i \in 1..Len(ts) :
                                ts[i].live /\ ts[i].pc = "listening"].api)
  ELSE ls

\* the init effect for router r, up to the first await (part_002:329-350);
\* outcome is what useVersion('v1') does: "ok", "throws" or "nothing".
\* The effect of the previous render is cleaned up first.
RunInit(r, outcome) ==
  /\ apiListeners' = ListenersAfterCleanup(apiListeners, inits)
  /\ hev' = [NoHookEvent EXCEPT !.op = IF hookMounted = "no" THEN "mount" ELSE "announce",
                                !.router = r, !.had = CloudCannonAPI,
                                !.outcome = IF r = NoRouter THEN "absent" ELSE outcome]
  /\ IF r = NoRouter
     THEN /\ hookError' = "notfound"
          /\ hookIsLoading' = FALSE
          /\ inits' = CleanedUp(inits)
          /\ UNCHANGED api
     ELSE IF outcome = "ok"
     THEN /\ Len(CleanedUp(inits)) < MaxInits
          /\ api' = r
          /\ hookError' = "null"
          /\ hookIsLoading' = TRUE
          /\ inits' = Append(CleanedUp(inits), [api |-> r, pc |-> "files", live |-> TRUE])
     ELSE /\ hookError' = "v1"
          /\ hookIsLoading' = FALSE
          /\ inits' = CleanedUp(inits)
          /\ UNCHANGED api

UseVersionOutcomes == {"ok", "throws", "nothing"}

\* first render: the discovery effect (part_002:311-326), then the init effect,
\* first with no router and, when the global slot held one, again with it
Mount(outcome) ==
  /\ hookMounted = "no"
  /\ hookMounted' = "yes"
  /\ CloudCannonAPI' = winRouter
  /\ docListeners' = IF winRouter # NoRouter THEN docListeners ELSE docListeners + 1
  /\ RunInit(winRouter, outcome)
  /\ UNCHANGED <<winRouter, files, collections, handlers, refreshes, uncaught>>

\* the host dispatches cloudcannon:load carrying router r; the listener of the
\* discovery effect stores it (part_002:320-325) and the init effect re-runs
Announce(r, outcome) ==
  /\ hookMounted = "yes"
  /\ docListeners > 0
  /\ r # CloudCannonAPI
  /\ CloudCannonAPI' = r
  /\ RunInit(r, outcome)
  /\ UNCHANGED <<hookMounted, winRouter, files, collections, docListeners, handlers,
                 refreshes, uncaught>>

\* the component unmounts: only the init effect has a cleanup
Unmount ==
  /\ hookMounted = "yes"
  /\ hookMounted' = "gone"
  /\ apiListeners' = ListenersAfterCleanup(apiListeners, inits)
  /\ inits' = CleanedUp(inits)
  /\ hev' = [NoHookEvent EXCEPT !.op = "unmount"]
  /\ UNCHANGED <<winRouter, CloudCannonAPI, api, hookIsLoading, hookError, files,
                 collections, docListeners, handlers, refreshes, uncaught>>

\* initializeAPI after files() resolved (part_002:350-353)
InitFilesResolve(i, p) ==
  /\ inits[i].pc = "files"
  /\ files' = SetState(files, p)
  /\ inits' = [inits EXCEPT ![i].pc = "collections"]
  /\ hev' = [NoHookEvent EXCEPT !.op = "initFiles", !.p = p, !.i = i]
  /\ UNCHANGED <<hookMounted, winRouter, CloudCannonAPI, api, hookIsLoading, hookError,
                 collections, docListeners, apiListeners, handlers, refreshes, uncaught>>

\* initializeAPI after collections() resolved: listeners are added and the
\* cleanup returned (part_002:353-374, 380-382); a run whose effect was
\* cleaned up meanwhile has the returned cleanup called at once
InitCollectionsResolve(i, p) ==
  LET t == inits[i] IN
  /\ t.pc = "collections"
  /\ collections' = SetState(collections, p)
  /\ hookIsLoading' = SetState(hookIsLoading, FALSE)
  /\ hev' = [NoHookEvent EXCEPT !.op = "initCollections", !.p = p,
                                !.n = Len(inits), !.i = i]
  /\ IF t.live
     THEN /\ apiListeners' = AddListeners(apiListeners, t.api)
          /\ inits' = [inits EXCEPT ![i].pc = "listening"]
     ELSE /\ apiListeners' = RemoveListeners(AddListeners(apiListeners, t.api), t.api)
          /\ inits' = RemoveAt(inits, i)
  /\ UNCHANGED <<hookMounted, winRouter, CloudCannonAPI, api, hookError, files,
                 docListeners, handlers, refreshes, uncaught>>

\* initializeAPI after files() or collections() rejected (part_002:375-382)
InitReject(i) ==
  /\ inits[i].pc \in {"files", "collections"}
  /\ hookError' = SetState(hookError, "fetch")
  /\ hookIsLoading' = SetState(hookIsLoading, FALSE)
  /\ inits' = RemoveAt(inits, i)
  /\ hev' = [NoHookEvent EXCEPT !.op = "initReject"]
  /\ UNCHANGED <<hookMounted, winRouter, CloudCannonAPI, api, files, collections,
                 docListeners, apiListeners, handlers, refreshes, uncaught>>

\* one run of handleFileChange per registered handler, each with its own
\* files() call (part_002:357-358); late is history
StartHandlers(hs, a, n) ==
  hs \o [k \in 1..n |-> [api |-> a, pc |-> "files", late |-> FALSE]]

\* the runs that started before run i and still await files() have been
\* overtaken when run i's files() resolves
Overtaken(hs, i) ==
  [j \in 1..Len(hs) |->
     IF j < i /\ hs[j].pc = "files" THEN [hs[j] EXCEPT !.late = TRUE] ELSE hs[j]]

\* the host fires event e on API object a: every handler registered for it
\* starts a run of handleFileChange, up to its first await (part_002:357-358)
Notify(a, e) ==
  LET n == apiListeners[a][e] IN
  /\ n > 0
  /\ Len(handlers) + n <= MaxHandlers
  /\ handlers' = StartHandlers(handlers, a, n)
  /\ hev' = [NoHookEvent EXCEPT !.op = "notify", !.router = a, !.n = Len(handlers)]
  /\ UNCHANGED <<hookMounted, winRouter, CloudCannonAPI, api, hookIsLoading, hookError,
                 files, collections, docListeners, apiListeners, inits, refreshes,
                 uncaught>>

\* the host fires event e on the API object the hook holds while no handler is
\* registered for it on that object: initializeAPI adds its handlers only after
\* both awaits (part_002:350-367), so nothing of the hook runs
NotifyUnheard(a, e) ==
  /\ hookMounted = "yes"
  /\ api = a
  /\ apiListeners[a][e] = 0
  /\ hev' = [NoHookEvent EXCEPT !.op = "unheard", !.router = a, !.n = Len(handlers)]
  /\ UNCHANGED <<hookMounted, winRouter, CloudCannonAPI, api, hookIsLoading, hookError,
                 files, collections, docListeners, apiListeners, inits, handlers,
                 refreshes, uncaught>>

\* handleFileChange after files() resolved (part_002:358-361)
HandlerFilesDropsLate(i, p) ==
  /\ handlers[i].pc = "files"
  /\ files' = IF handlers[i].late THEN files ELSE SetState(files, p)
  /\ handlers' = [Overtaken(handlers, i) EXCEPT ![i].pc = "collections"]
  /\ hev' = [NoHookEvent EXCEPT !.op = "handlerFiles", !.p = p, !.was = files,
                                !.i = i, !.late = handlers[i].late]
  /\ UNCHANGED <<hookMounted, winRouter, CloudCannonAPI, api, hookIsLoading, hookError,
                 collections, docListeners, apiListeners, inits, refreshes, uncaught>>

HandlerFilesOnly(i, p) ==
  /\ handlers[i].pc = "files"
  /\ files' = SetState(files, p)
  /\ handlers' = RemoveAt(handlers, i)
  /\ hev' = [NoHookEvent EXCEPT !.op = "handlerFiles", !.p = p, !.was = files,
                                !.i = i, !.late = handlers[i].late]
  /\ UNCHANGED <<hookMounted, winRouter, CloudCannonAPI, api, hookIsLoading, hookError,
                 collections, docListeners, apiListeners, inits, refreshes, uncaught>>

HandlerFilesResolve(i, p) ==
  /\ handlers[i].pc = "files"
  /\ files' = SetState(files, p)
  /\ handlers' = [Overtaken(handlers, i) EXCEPT ![i].pc = "collections"]
  /\ hev' = [NoHookEvent EXCEPT !.op = "handlerFiles", !.p = p, !.was = files,
                                !.i = i, !.late = handlers[i].late]
  /\ UNCHANGED <<hookMounted, winRouter, CloudCannonAPI, api, hookIsLoading, hookError,
                 collections, docListeners, apiListeners, inits, refreshes, uncaught>>

\* handleFileChange after collections() resolved (part_002:361-363)
HandlerCollectionsResolve(i, p) ==
  /\ handlers[i].pc = "collections"
  /\ collections' = SetState(collections, p)
  /\ handlers' = RemoveAt(handlers, i)
  /\ hev' = [NoHookEvent EXCEPT !.op = "handlerCollections", !.p = p]
  /\ UNCHANGED <<hookMounted, winRouter, CloudCannonAPI, api, hookIsLoading, hookError,
                 files, docListeners, apiListeners, inits, refreshes, uncaught>>

\* what becomes of a rejection inside the hook's handleFileChange: the function
\* has no try/catch and its caller keeps no promise (part_002:357-363)
HandlerRejection(u) == u \cup {"useCloudCannonAPI.handleFileChange"}

\* handleFileChange when files() or collections() rejects
HandlerReject(i) ==
  /\ handlers' = RemoveAt(handlers, i)
  /\ uncaught' = HandlerRejection(uncaught)
  /\ hev' = [NoHookEvent EXCEPT !.op = "handlerReject"]
  /\ UNCHANGED <<hookMounted, winRouter, CloudCannonAPI, api, hookIsLoading, hookError,
                 files, collections, docListeners, apiListeners, inits, refreshes>>

\* App renders a refresh control: Try Again when error is set, else the header
\* buttons unless loading (part_003:36-68, FileBrowser.tsx:28-72)
RefreshControlShown ==
  /\ hookMounted = "yes"
  /\ ~(hookIsLoading /\ api = NoRouter)
  /\ ~(hookError # "null" /\ api = NoRouter)
  /\ (hookError # "null" \/ ~hookIsLoading)

\* refreshFiles up to its await (part_002:295-300)
RefreshFiles ==
  /\ RefreshControlShown
  /\ api # NoRouter
  /\ Len(refreshes) < MaxRefreshes
  /\ hookIsLoading' = TRUE
  /\ refreshes' = Append(refreshes, [api |-> api])
  /\ hev' = [NoHookEvent EXCEPT !.op = "refresh", !.n = Len(refreshes)]
  /\ UNCHANGED <<hookMounted, winRouter, CloudCannonAPI, api, hookError, files,
                 collections, docListeners, apiListeners, inits, handlers, uncaught>>

\* refreshFiles after files() resolved (part_002:300-302, 306-308)
RefreshResolve(i, p) ==
  /\ files' = SetState(files, p)
  /\ hookError' = SetState(hookError, "null")
  /\ hookIsLoading' = SetState(hookIsLoading, FALSE)
  /\ refreshes' = RemoveAt(refreshes, i)
  /\ hev' = [NoHookEvent EXCEPT !.op = "refreshResolve", !.p = p]
  /\ UNCHANGED <<hookMounted, winRouter, CloudCannonAPI, api, collections,
                 docListeners, apiListeners, inits, handlers, uncaught>>

\* refreshFiles after files() rejected (part_002:303-308)
RefreshReject(i) ==
  /\ hookError' = SetState(hookError, "refresh")
  /\ hookIsLoading' = SetState(hookIsLoading, FALSE)
  /\ refreshes' = RemoveAt(refreshes, i)
  /\ hev' = [NoHookEvent EXCEPT !.op = "refreshReject"]
  /\ UNCHANGED <<hookMounted, winRouter, CloudCannonAPI, api, files, collections,
                 docListeners, apiListeners, inits, handlers, uncaught>>


(***************************************************************************)
(* FileBrowser and CollectionBrowser state                                 *)
(***************************************************************************)
\* collection keys; FileBrowser renders one CollectionBrowser per key
NumKeys == 2
\* collection objects the host may hand out for one key: 1..NumVersions
NumVersions == 2
\* collection.items() calls in flight at once
MaxQueries == 2

Keys == 1..NumKeys
Versions == 1..NumVersions
NotMounted == 0
Undefined == -1

VARIABLES
  browserProps,     \* FileBrowser's props isLoading, error (set or not) and files
  shown,            \* per key: the collection prop of the mounted instance, or 0
  collListeners,    \* per collection object (key, version) and event: handlers
  items,            \* per key: useState items of the instance, -1 is undefined
  queries,          \* runs of handleFileChange awaiting items(): [key, ver, live]
  cev               \* history: the last step, and whether an instance has unmounted

collVars == <<browserProps, shown, collListeners, items, queries, cev>>

\* cev: op, the step; unmounted, an instance has unmounted so far; key, the
\* collection key it concerned; p, the payload items() resolved with; live,
\* the instance that made the call was still mounted; n, the items() calls in
\* flight before the step
NoCollEvent ==
  [op |-> "init", unmounted |-> FALSE, key |-> 0, p |-> 0, live |-> FALSE, n |-> 0]

CollEvent(op, k) == [NoCollEvent EXCEPT !.op = op, !.key = k, !.unmounted = cev.unmounted]

CollInit ==
  /\ browserProps = [isLoading |-> TRUE, error |-> FALSE, files |-> 0]
  /\ shown = [k \in Keys |-> NotMounted]
  /\ collListeners = [k \in Keys |-> [v \in Versions |-> NoListeners]]
  /\ items = [k \in Keys |-> Undefined]
  /\ queries = <<>>
  /\ cev = NoCollEvent

\* the effect body: collection.addEventListener for the three events (part_001:32-34)
CollAddListeners(ls, k, v) ==
  [ls EXCEPT ![k][v] = [e \in Events |-> ls[k][v][e] + 1]]

\* the effect's cleanup (part_001:37-41)
CollRemoveListenersButDelete(ls, k, v) ==
  [ls EXCEPT ![k][v] = [e \in Events |->
     IF ls[k][v][e] > 0 /\ e # "delete" THEN ls[k][v][e] - 1 ELSE ls[k][v][e]]]

CollRemoveListeners(ls, k, v) ==
  [ls EXCEPT ![k][v] = [e \in Events |-> IF ls[k][v][e] > 0 THEN ls[k][v][e] - 1 ELSE 0]]

\* handleFileChange up to its await (part_001:27-28)
StartQuery(qs, k, v) == Append(qs, [key |-> k, ver |-> v, live |-> TRUE])

\* the n handlers registered for an event each run handleFileChange
NotifyCoalesced(qs, k, v, n) ==
  IF \E j \in 1..Len(qs) : qs[j].key = k /\ qs[j].ver = v /\ qs[j].live THEN qs
  ELSE StartQuery(qs, k, v)

RECURSIVE NotifyQueries(_, _, _, _)
NotifyQueries(qs, k, v, n) ==
  IF n = 0 THEN qs ELSE NotifyQueries(StartQuery(qs, k, v), k, v, n - 1)

\* the queries of an unmounted instance can no longer set its state
Orphaned(qs, k) ==
  [i \in 1..Len(qs) |-> IF qs[i].key = k THEN [qs[i] EXCEPT !.live = FALSE] ELSE qs[i]]

\* FileBrowser is rendered with a collections list that has a new key k with
\* collection object (k, v) (FileBrowser.tsx:49-58): a CollectionBrowser
\* mounts, useState and the effect (part_001:24-35)
CollMount(k, v) ==
  /\ ~browserProps.error
  /\ shown[k] = NotMounted
  /\ Len(queries) < MaxQueries
  /\ shown' = [shown EXCEPT ![k] = v]
  /\ items' = [items EXCEPT ![k] = Undefined]
  /\ collListeners' = CollAddListeners(collListeners, k, v)
  /\ queries' = StartQuery(queries, k, v)
  /\ cev' = [CollEvent("mount", k) EXCEPT !.n = Len(queries)]
  /\ UNCHANGED <<browserProps, uncaught>>

\* the instance for key k unmounts: the effect's cleanup (part_001:37-41)
CollUnmount(k) ==
  /\ shown[k] # NotMounted
  /\ shown' = [shown EXCEPT ![k] = NotMounted]
  /\ items' = [items EXCEPT ![k] = Undefined]
  /\ collListeners' = CollRemoveListeners(collListeners, k, shown[k])
  /\ queries' = Orphaned(queries, k)
  /\ cev' = [CollEvent("unmount", k) EXCEPT !.unmounted = TRUE]
  /\ UNCHANGED <<browserProps, uncaught>>

\* the instance for key k is re-rendered with another collection object: the
\* cleanup for the old one, then the effect for the new one (part_001:26-42)
CollReplace(k, v) ==
  /\ ~browserProps.error
  /\ shown[k] # NotMounted
  /\ shown[k] # v
  /\ Len(queries) < MaxQueries
  /\ shown' = [shown EXCEPT ![k] = v]
  /\ collListeners' =
       CollAddListeners(CollRemoveListeners(collListeners, k, shown[k]), k, v)
  /\ queries' = StartQuery(queries, k, v)
  /\ cev' = [CollEvent("replace", k) EXCEPT !.n = Len(queries)]
  /\ UNCHANGED <<browserProps, items, uncaught>>

\* the host fires event e on collection object (k, v): each registered handler
\* starts a query
CollNotify(k, v, e) ==
  LET n == collListeners[k][v][e] IN
  /\ n > 0
  /\ Len(queries) + n <= MaxQueries
  /\ queries' = NotifyQueries(queries, k, v, n)
  /\ cev' = [CollEvent("notify", k) EXCEPT !.n = Len(queries)]
  /\ UNCHANGED <<browserProps, shown, collListeners, items, uncaught>>

\* handleFileChange after items() resolved (part_001:28-29)
ItemsResolve(i, p) ==
  LET q == queries[i] IN
  /\ items' = IF q.live THEN [items EXCEPT ![q.key] = p] ELSE items
  /\ queries' = RemoveAt(queries, i)
  /\ cev' = [CollEvent("items", q.key) EXCEPT !.p = p, !.live = q.live]
  /\ UNCHANGED <<browserProps, shown, collListeners, uncaught>>

\* handleFileChange when items() rejects: no try/catch, and neither the effect
\* (part_001:35) nor the event dispatcher keeps the promise
ItemsReject(i) ==
  /\ queries' = RemoveAt(queries, i)
  /\ uncaught' = uncaught \cup {"CollectionBrowser.handleFileChange"}
  /\ cev' = CollEvent("itemsReject", queries[i].key)
  /\ UNCHANGED <<browserProps, shown, collListeners, items>>

\* every instance unmounts at once: listeners removed, queries orphaned
RECURSIVE UnmountAll(_, _)
UnmountAll(st, k) ==
  IF k = 0 THEN st
  ELSE UnmountAll(
         [shown |-> [st.shown EXCEPT ![k] = NotMounted],
          items |-> [st.items EXCEPT ![k] = Undefined],
          collListeners |-> IF st.shown[k] = NotMounted THEN st.collListeners
                            ELSE CollRemoveListeners(st.collListeners, k, st.shown[k]),
          queries |-> Orphaned(st.queries, k)],
         k - 1)

\* App renders FileBrowser with new values of isLoading, error and files
\* (part_003:76-84); with error set FileBrowser returns the error view and
\* renders no CollectionBrowser (FileBrowser.tsx:28-45)
FileBrowserRender(l, e, f) ==
  LET new == [isLoading |-> l, error |-> e, files |-> f]
      st == IF e
            THEN UnmountAll([shown |-> shown, items |-> items,
                             collListeners |-> collListeners, queries |-> queries],
                            NumKeys)
            ELSE [shown |-> shown, items |-> items, collListeners |-> collListeners,
                  queries |-> queries]
  IN
  /\ new # browserProps
  /\ browserProps' = new
  /\ shown' = st.shown
  /\ items' = st.items
  /\ collListeners' = st.collListeners
  /\ queries' = st.queries
  /\ cev' = [CollEvent("render", 0) EXCEPT
               !.unmounted = cev.unmounted \/ (st.shown # shown)]
  /\ UNCHANGED uncaught

(***************************************************************************)
(* buildFileTree                                                           *)
(***************************************************************************)
\* characters of all the paths of one input list together
MaxInputChars == 6

Sep == "/"
Letters == {"a", "B"}
Alphabet == Letters \cup {Sep}

\* file.path is a string: a sequence of characters. A list of paths is a
\* string cut into pieces after the positions in cuts; record i is the i-th
RECURSIVE CutFrom(_, _, _, _)
CutFrom(str, cuts, i, cur) ==
  IF i > Len(str) THEN (IF cur = <<>> THEN <<>> ELSE <<cur>>)
  ELSE IF i \in cuts THEN <<Append(cur, str[i])>> \o CutFrom(str, cuts, i + 1, <<>>)
  ELSE CutFrom(str, cuts, i + 1, Append(cur, str[i]))

ListOfPaths(str, cuts) == CutFrom(str, cuts, 1, <<>>)

\* String.prototype.split('/') (part_000:24)
RECURSIVE SplitFrom(_, _, _)
SplitFrom(str, i, cur) ==
  IF i > Len(str) THEN <<cur>>
  ELSE IF str[i] = Sep THEN <<cur>> \o SplitFrom(str, i + 1, <<>>)
  ELSE SplitFrom(str, i + 1, Append(cur, str[i]))

Split(str) == SplitFrom(str, 1, <<>>)

\* .filter(Boolean): the empty string is falsy (part_000:24)
FilterNothing(parts) == parts

FilterBoolean(parts) == SelectSeq(parts, LAMBDA x : x # <<>>)

Parts(path) == FilterBoolean(Split(path))

\* parts.slice(0, k).join('/') (part_000:29)
RECURSIVE JoinUpTo(_, _)
JoinUpTo(parts, k) ==
  IF k = 0 THEN <<>>
  ELSE IF k = 1 THEN parts[1]
  ELSE JoinUpTo(parts, k - 1) \o <<Sep>> \o parts[k]

\* an optional value: <<>> is undefined, <<x>> is x
NoChildren == <<>>
NoRecord == 0

\* a Record<string, FileTreeNode> is the sequence of its values in insertion
\* order, which is the order of Object.values for these keys
IndexOfName(nodes, name) ==
  IF \E i \in 1..Len(nodes) : nodes[i].name = name
  THEN CHOOSE i \in 1..Len(nodes) : nodes[i].name = name
  ELSE 0

\* the node created at part_000:32-38
NewNodeNeverFile(parts, k, rec) ==
  [name |-> parts[k],
   path |-> JoinUpTo(parts, k),
   type |-> "directory",
   children |-> <<(<<>>)>>,
   file |-> NoRecord]

NewNode(parts, k, rec) ==
  LET isFile == k = Len(parts) IN
  [name |-> parts[k],
   path |-> JoinUpTo(parts, k),
   type |-> IF isFile THEN "file" ELSE "directory",
   children |-> IF isFile THEN NoChildren ELSE <<(<<>>)>>,
   file |-> IF isFile THEN rec ELSE NoRecord]

\* `if (!current[part]) current[part] = {...}` (part_000:31-39)
RegisterOverwriting(current, parts, k, rec) ==
  IF IndexOfName(current, parts[k]) = 0
  THEN Append(current, NewNode(parts, k, rec))
  ELSE [current EXCEPT ![IndexOfName(current, parts[k])] = NewNode(parts, k, rec)]

Register(current, parts, k, rec) ==
  IF IndexOfName(current, parts[k]) = 0
  THEN Append(current, NewNode(parts, k, rec))
  ELSE current

\* parts.forEach from index k on, with `current` the record reached so far
\* (part_000:27-44). threw: `current` was undefined when current[part] was read.
RECURSIVE WalkParts(_, _, _, _)
WalkParts(current, parts, k, rec) ==
  IF k > Len(parts) THEN [threw |-> FALSE, nodes |-> current]
  ELSE
    LET isFile == k = Len(parts)
        added == Register(current, parts, k, rec)
        i == IndexOfName(added, parts[k])
    IN IF isFile THEN [threw |-> FALSE, nodes |-> added]
       ELSE IF added[i].children = NoChildren
       THEN [threw |-> TRUE, nodes |-> added]
       ELSE LET sub == WalkParts(added[i].children[1], parts, k + 1, rec)
            IN [threw |-> sub.threw,
                nodes |-> [added EXCEPT ![i].children = <<sub.nodes>>]]

\* files.forEach from record r on (part_000:23-45)
RECURSIVE AddFiles(_, _, _)
AddFiles(root, list, r) ==
  IF r > Len(list) THEN [threw |-> FALSE, nodes |-> root]
  ELSE LET w == WalkParts(root, Parts(list[r]), 1, r)
       IN IF w.threw THEN w ELSE AddFiles(w.nodes, list, r + 1)

\* String.prototype.localeCompare in the default collation: letters compare
\* first without case, then lower case before upper case
Primary(ch) ==
  CASE ch = "." -> 0
    [] ch \in {"a", "A"} -> 1
    [] ch \in {"b", "B"} -> 2
    [] ch = "c" -> 3
    [] ch = "d" -> 4
    [] ch = "m" -> 5
CaseRank(ch) == IF ch \in {"A", "B"} THEN 1 ELSE 0
\* the UTF-16 code unit, for comparison with the operator <
CodeUnit(ch) ==
  CASE ch = "." -> 46 [] ch = "A" -> 65 [] ch = "B" -> 66 [] ch = "a" -> 97
    [] ch = "b" -> 98 [] ch = "c" -> 99 [] ch = "d" -> 100 [] ch = "m" -> 109

PrimaryKeys(x) == [i \in 1..Len(x) |-> Primary(x[i])]
CaseKeys(x) == [i \in 1..Len(x) |-> CaseRank(x[i])]
CodeUnits(x) == [i \in 1..Len(x) |-> CodeUnit(x[i])]

\* lexicographic comparison of two sequences of numbers: -1, 0 or 1
RECURSIVE CompareKeys(_, _, _)
CompareKeys(x, y, i) ==
  IF i > Len(x) /\ i > Len(y) THEN 0
  ELSE IF i > Len(x) THEN -1
  ELSE IF i > Len(y) THEN 1
  ELSE IF x[i] < y[i] THEN -1
  ELSE IF x[i] > y[i] THEN 1
  ELSE CompareKeys(x, y, i + 1)

CodeUnitCompare(x, y) == CompareKeys(CodeUnits(x), CodeUnits(y), 1)

LocaleCompare(x, y) ==
  LET p == CompareKeys(PrimaryKeys(x), PrimaryKeys(y), 1)
  IN IF p # 0 THEN p ELSE CompareKeys(CaseKeys(x), CaseKeys(y), 1)

\* the comparator of sortNodes (part_000:54-60)
CompareByNameOnly(a, b) == LocaleCompare(a.name, b.name)

CompareNodes(a, b) ==
  IF a.type # b.type
  THEN (IF a.type = "directory" THEN -1 ELSE 1)
  ELSE LocaleCompare(a.name, b.name)

\* Array.prototype.sort is stable: x goes after every element not greater
AppendUnsorted(sorted, x) == Append(sorted, x)

RECURSIVE InsertSorted(_, _)
InsertSorted(sorted, x) ==
  IF sorted = <<>> THEN <<x>>
  ELSE IF CompareNodes(sorted[Len(sorted)], x) <= 0 THEN Append(sorted, x)
  ELSE Append(InsertSorted(SubSeq(sorted, 1, Len(sorted) - 1), x), sorted[Len(sorted)])

RECURSIVE SortFrom(_, _, _)
SortFrom(arr, i, sorted) ==
  IF i > Len(arr) THEN sorted ELSE SortFrom(arr, i + 1, InsertSorted(sorted, arr[i]))

\* sortNodes (part_000:48-61): in the result children is the sorted array of a
\* directory and the empty object of a file, both written as a sequence
RECURSIVE sortNodes(_)
sortNodes(nodes) ==
  LET mapped == [i \in 1..Len(nodes) |->
                   [nodes[i] EXCEPT !.children =
                      IF nodes[i].children # NoChildren
                      THEN sortNodes(nodes[i].children[1])
                      ELSE <<>>]]
  IN SortFrom(mapped, 1, <<>>)

\* buildFileTree (part_000:20-64)
buildFileTree(list) ==
  LET built == AddFiles(<<>>, list, 1)
  IN IF built.threw
     THEN [state |-> "threw", forest |-> <<>>]
     ELSE [state |-> "built", forest |-> sortNodes(built.nodes)]

\* runs of buildFileTree on one list (useMemo runs again for an equal list
\* with a new identity)
MaxRuns == 2

VARIABLES
  input,            \* the files prop of FileTree: a list of paths
  tree,             \* the result of useMemo(() => buildFileTree(files))
  runs,             \* how many times buildFileTree has run on the list
  given,            \* history: the list as it was handed to FileTree
  first,            \* history: the result of the first run
  mounted,          \* the paths of the nodes that have a FileTreeItem instance
  expanded,         \* those of them whose useState isExpanded is true
  treeSelected,     \* the selectedFile prop: a record of the list, or none
  lastExpanded,     \* history: the nodes whose latest instance had isExpanded true
  tev               \* history: the last click

treeVars == <<input, tree, runs, given, first, mounted, expanded, treeSelected,
              lastExpanded, tev>>

NotBuilt == [state |-> "pending", forest |-> <<>>]

\* the list after a run: files.forEach reads it and nothing writes it
\* (part_000:23-45)
FilesReversedInPlace(list) == [i \in 1..Len(list) |-> list[Len(list) + 1 - i]]

FilesAfter(list) == list

\* every node of a forest, parents before children
RECURSIVE Flatten(_)
Flatten(nodes) ==
  IF nodes = <<>> THEN <<>>
  ELSE <<nodes[1]>> \o Flatten(nodes[1].children) \o Flatten(Tail(nodes))

\* the level prop of a node's item: 0 at the root, one more per nesting
\* (part_000:129, 160)
LevelOf(path) == Len(Parts(path)) - 1

\* useState(level < 2) (part_000:74)
InitiallyExpandedAtRootOnly(level) == level < 1

InitiallyExpanded(level) == level < 2

\* the items that exist when `nodes` are rendered with fresh instances: a
\* directory renders its children while it is expanded (part_000:121-133)
RECURSIVE DefaultMounted(_)
DefaultMounted(nodes) ==
  UNION { {nodes[i].path}
            \cup (IF nodes[i].type = "directory" /\ InitiallyExpanded(LevelOf(nodes[i].path))
                  THEN DefaultMounted(nodes[i].children)
                  ELSE {})
          : i \in 1..Len(nodes) }

DefaultExpanded(paths) == {p \in paths : InitiallyExpanded(LevelOf(p))}

NoClick ==
  [op |-> "none", path |-> <<>>, calls |-> <<>>, wasExpanded |-> FALSE,
   wasSelected |-> NoRecord, othersChanged |-> FALSE]

\* before FileTree has rendered there is no item
ItemsInit ==
  /\ mounted = {}
  /\ expanded = {}
  /\ treeSelected = NoRecord
  /\ lastExpanded = {}
  /\ tev = NoClick

\* the paths a/b.md, a/c.md and d.md, in every order
ExamplePaths ==
  { <<"a", "/", "b", ".", "m", "d">>, <<"a", "/", "c", ".", "m", "d">>,
    <<"d", ".", "m", "d">> }

ExampleInputs ==
  { l \in { <<x, y, z>> : x \in ExamplePaths, y \in ExamplePaths, z \in ExamplePaths } :
      l[1] # l[2] /\ l[1] # l[3] /\ l[2] # l[3] }

\* lists with directories three and four levels deep: a/a/a/B, a/a/a/a/B,
\* and a/a/a/B with B/a
DeepInputs ==
  { << <<"a", "/", "a", "/", "a", "/", "B">> >>,
    << <<"a", "/", "a", "/", "a", "/", "a", "/", "B">> >>,
    << <<"a", "/", "a", "/", "a", "/", "B">>, <<"B", "/", "a">> >> }

TreeInit ==
  /\ \/ \E n \in 0..MaxInputChars :
          \E str \in [1..n -> Alphabet], cuts \in SUBSET (1..(n - 1)) :
            input = ListOfPaths(str, cuts)
     \/ input \in ExampleInputs
     \/ input \in DeepInputs
  /\ tree = NotBuilt
  /\ runs = 0
  /\ given = input
  /\ first = NotBuilt
  /\ ItemsInit

TreeIdle ==
  /\ input = <<>>
  /\ tree = NotBuilt
  /\ runs = 0
  /\ given = <<>>
  /\ first = NotBuilt
  /\ ItemsInit

\* FileTree renders: useMemo runs buildFileTree (part_000:139) and the items
\* are rendered (part_000:153-163); on a later render the items, keyed by
\* path, keep their instances
Render ==
  /\ runs < MaxRuns
  /\ tree' = buildFileTree(input)
  /\ input' = FilesAfter(input)
  /\ runs' = runs + 1
  /\ first' = IF runs = 0 THEN tree' ELSE first
  /\ IF runs = 0
     THEN /\ mounted' = DefaultMounted(tree'.forest)
          /\ expanded' = DefaultExpanded(mounted')
          /\ lastExpanded' = expanded'
     ELSE UNCHANGED <<mounted, expanded, lastExpanded>>
  /\ UNCHANGED <<given, treeSelected, tev>>

\* the rendered items of the forest, by position in Flatten(tree.forest)
Item(i) == Flatten(tree.forest)[i]

Rendered(i) == i \in 1..Len(Flatten(tree.forest)) /\ Item(i).path \in mounted

\* the flags after the click, against the latest flag each other node had
OthersChanged(n, mountedAfter, expandedAfter) ==
  \E p \in mountedAfter \ {n.path} : (p \in expandedAfter) # (p \in lastExpanded)

\* handleClick of a directory item: setIsExpanded(!isExpanded) (part_000:78-79);
\* the children are rendered only while it is expanded (part_000:121-133)
ClickDirectory(i) ==
  LET n == Item(i)
      below == {Flatten(n.children)[j].path : j \in 1..Len(Flatten(n.children))}
      mountedAfter == IF n.path \in expanded
                      THEN mounted \ below
                      ELSE mounted \cup DefaultMounted(n.children)
      expandedAfter == IF n.path \in expanded
                       THEN (expanded \ {n.path}) \ below
                       ELSE expanded \cup {n.path}
                              \cup DefaultExpanded(DefaultMounted(n.children))
  IN
  /\ Rendered(i)
  /\ n.type = "directory"
  /\ mounted' = mountedAfter
  /\ expanded' = expandedAfter
  /\ lastExpanded' = (lastExpanded \ mountedAfter) \cup expandedAfter
  /\ tev' = [op |-> "directory", path |-> n.path, calls |-> <<>>,
             wasExpanded |-> n.path \in expanded,
             wasSelected |-> treeSelected,
             othersChanged |-> OthersChanged(n, mountedAfter, expandedAfter)]
  /\ UNCHANGED <<input, tree, runs, given, first, treeSelected>>

\* handleClick of a file item: onFileSelect(node.file) (part_000:80-81), and
\* App.handleFileSelect stores the record (part_003:13-15)
ClickFile(i) ==
  LET n == Item(i) IN
  /\ Rendered(i)
  /\ n.type = "file"
  /\ n.file # NoRecord
  /\ treeSelected' = n.file
  /\ tev' = [op |-> "file", path |-> n.path, calls |-> <<n.file>>,
             wasExpanded |-> n.path \in expanded,
             wasSelected |-> treeSelected,
             othersChanged |-> OthersChanged(n, mounted, expanded)]
  /\ UNCHANGED <<input, tree, runs, given, first, mounted, expanded, lastExpanded>>

\* isSelected of an item (part_000:75)
IsSelected(n) == treeSelected # NoRecord /\ input[treeSelected] = n.path


(***************************************************************************)
(* What FileBrowser and its sections display                               *)
(***************************************************************************)
\* the files a FileTree is given: payload p stands for a list of p records
PathsOfPayload(p) == [i \in 1..p |-> [j \in 1..i |-> "a"]]

\* what FileTree renders (part_000:138-167)
FileTreeView(isLoadingProp, list) ==
  IF isLoadingProp THEN "spinner"
  ELSE IF Len(buildFileTree(list).forest) = 0 THEN "placeholder"
  ELSE "tree"

\* the Files section of FileBrowser (FileBrowser.tsx:61-75)
FilesRefreshDisabled == browserProps.isLoading

FilesView == FileTreeView(browserProps.isLoading, PathsOfPayload(browserProps.files))

\* the section of CollectionBrowser k (part_001:49-60)
SectionRefreshDisabled(k) == browserProps.isLoading

SectionView(k) ==
  FileTreeView(browserProps.isLoading \/ items[k] = Undefined,
               IF items[k] = Undefined THEN <<>> ELSE PathsOfPayload(items[k]))

\* FileBrowser's return (FileBrowser.tsx:28-77)
BrowserView == IF browserProps.error THEN "tryAgain" ELSE "sections"

(***************************************************************************)
(* Claims about CodeEditor                                                 *)
(***************************************************************************)

\* C1: after the persistence callback rejects a save of the selected file, the
\* editor is Unsaved with the message surfaced, the buffer is the one that was
\* there, and the save action is still available for that buffer.
C1_RetryAfterSaveFailure ==
  (ev.op = "saveReject" /\ ev.cur /\ ev.file = selectedFile /\ ~isLoading
     /\ hasUnsavedChanges)
  => /\ saveStatus = "unsaved"
     /\ error = "save"
     /\ content = ev.content
     /\ SaveButtonEnabled

\* C2: at most one invocation of the persistence callback is pending at any
\* time, and a save request made while one is pending invokes nothing.
C2_OneSavePending ==
  /\ Len(pendingSaves) <= 1
  /\ (ev.op \in {"click", "shortcut"} /\ (ev.pending \/ ev.clean)) => ~ev.issued

\* C3: whenever the editor is Unsaved and not Saving, pressing the shortcut
\* invokes the persistence callback with the current file and current buffer.
C3_ShortcutSaves ==
  (ev.op = "shortcut" /\ ev.pre) => ev.called

\* C4: once the fetch of the newly selected file has resolved, a completion of a
\* load or save that was started for a previously selected file changes neither
\* the buffer, the last-saved baseline nor the save status.
C4_StaleCompletionIgnored ==
  (ev.op \in {"getResolve", "saveResolve", "saveReject"} /\ ~ev.cur /\ ev.pre)
  => ~ev.changed


SavePassesBufferAndResets ==
  /\ (ev.op \in {"click", "shortcut"} /\ ev.issued) => ev.called
  /\ ev.op = "saveResolve" =>
       /\ originalContent = ev.passed
       /\ ~ev.edited => saveStatus = "saved"

C18_LoadOutcomes ==
  /\ ev.op = "select" =>
       /\ isLoading /\ ~EditorRendered
       /\ pendingGets # <<>>
       /\ pendingGets[Len(pendingGets)] = [file |-> selectedFile, cur |-> TRUE]
  /\ (ev.op = "getResolve" /\ ev.cur) =>
       /\ ev.file = selectedFile
       /\ content = ev.passed /\ originalContent = ev.passed
       /\ saveStatus = "saved" /\ ~isLoading
  /\ (ev.op = "getReject" /\ ev.cur) =>
       /\ ev.file = selectedFile
       /\ error = "load" /\ ~isLoading /\ ~EditorRendered /\ ~command.bound

\* the load of the second file has just rejected, after the first file had
\* loaded with some text
C18_Witness ==
  /\ ev.op = "getReject" /\ ev.cur
  /\ selectedFile = 2
  /\ content # EmptyText /\ content = originalContent
  /\ pendingGets = <<>>

\* C28: when the 2-second timer of a successful save of the selected file
\* fires, and the buffer was not edited since the save was requested and still
\* equals the baseline, the save status is cleared to null.
C28_SavedStatusCleared ==
  (ev.op = "timer" /\ ev.cur /\ ~ev.edited /\ ev.clean /\ pendingSaves = <<>>)
    => saveStatus = "null"

\* C29: whenever onSave is invoked with file F, the fetch result most recently
\* written into the buffer came from F.get().
C29_SavesContentOfSameFile ==
  (ev.op \in {"click", "shortcut"} /\ ev.issued)
    => pendingSaves[Len(pendingSaves)].file = loadedFrom

\* C30: while a file.get() of the current selection is pending, the loading
\* flag is true and the editable view is not rendered.
C30_LoadingUntilOwnFetchSettles ==
  (\E i \in 1..Len(pendingGets) : pendingGets[i].cur)
    => (isLoading /\ ~EditorRendered)

C32_UnsavedOnlyIfDiffers ==
  (pendingSaves = <<>> /\ EditorRendered /\ saveStatus = "unsaved")
    => hasUnsavedChanges

(***************************************************************************)
(* Claims about useCloudCannonAPI                                          *)
(***************************************************************************)

\* C5: every rejection of a host call is caught where the call is made and
\* turned into a message; none is left without a handler.
C5_AllRejectionsCaught == uncaught = {}

\* C6: once the hook has unmounted and every pending initialization has
\* settled, no listener the hook registered is still registered, neither on an
\* API object nor on the document; the same holds for the API object of a
\* router that was replaced.
NoApiListeners(a) == \A e \in Events : apiListeners[a][e] = 0

InitSettled(a) == \A i \in 1..Len(inits) : inits[i].api # a \/ inits[i].pc = "listening"

C6_ListenersDeregistered ==
  /\ (hookMounted = "gone" /\ inits = <<>>)
       => (docListeners = 0 /\ \A a \in Routers : NoApiListeners(a))
  /\ \A a \in Routers :
       (hookMounted = "yes" /\ a # CloudCannonAPI /\ InitSettled(a)) => NoApiListeners(a)

\* C23: when a run of the init effect fails to obtain the v1 API (no router,
\* or useVersion('v1') throws or returns nothing), then error is set, api is
\* null, loading is false, no fetch of that run is pending and no handler is
\* registered on that router's API; and useVersion is called again only when
\* the router changes.
TerminalErrorState ==
  (hev.op \in {"mount", "announce"} /\ hev.outcome # "ok") =>
    /\ hookError # "null"
    /\ api = NoRouter
    /\ ~hookIsLoading
    /\ \A i \in 1..Len(inits) : ~inits[i].live
    /\ hev.router # NoRouter => NoApiListeners(hev.router)

C23_TerminalInitFailure ==
  /\ []TerminalErrorState
  /\ [][hev'.op \in {"mount", "announce"}
          => (hookMounted = "no" \/ CloudCannonAPI' # CloudCannonAPI)]_hev

\* C24: the hook reads the router from the global slot on mount and listens
\* for the announcement only if the slot is empty; an announcement is acted on
\* only while the hook has no router, so a later one neither replaces the
\* router nor re-runs initialization.
C24_OneTimeDiscovery ==
  /\ docListeners > 0 => winRouter = NoRouter
  /\ hev.op = "mount" =>
       /\ CloudCannonAPI = winRouter
       /\ docListeners = IF winRouter = NoRouter THEN 1 ELSE 0
  /\ hev.op = "announce" => hev.had = NoRouter

\* C26: a run of initializeAPI awaits files(), then collections(), and only a
\* run that has passed both has handlers registered, one per event; every
\* notification starts runs of handleFileChange that await files(), store the
\* list, await collections() and store the list.
ListeningRuns(a) ==
  {i \in 1..Len(inits) : inits[i].api = a /\ inits[i].pc = "listening"}

C26_FetchThenListen ==
  /\ \A a \in Routers, e \in Events : apiListeners[a][e] = Cardinality(ListeningRuns(a))
  /\ (hev.op \in {"mount", "announce"} /\ hev.outcome = "ok") =>
       inits[Len(inits)] = [api |-> hev.router, pc |-> "files", live |-> TRUE]
  /\ hev.op = "initFiles" =>
       /\ inits[hev.i].pc = "collections"
       /\ hookMounted = "yes" => files = hev.p
  /\ hev.op = "initCollections" =>
       /\ hookMounted = "yes" => collections = hev.p
       /\ Len(inits) = hev.n => inits[hev.i].pc = "listening"
  /\ hev.op = "notify" =>
       /\ Len(handlers) > hev.n
       /\ \A j \in (hev.n + 1)..Len(handlers) :
            handlers[j] = [api |-> hev.router, pc |-> "files", late |-> FALSE]
  /\ hev.op = "handlerFiles" =>
       /\ hev.i <= Len(handlers) /\ handlers[hev.i].pc = "collections"
       /\ hookMounted = "yes" => files = hev.p
  /\ (hev.op = "handlerCollections" /\ hookMounted = "yes") => collections = hev.p

\* a run started by a notification has stored both lists while the handlers
\* are registered
C26_Witness ==
  /\ hev.op = "handlerCollections"
  /\ hookMounted = "yes"
  /\ ListeningRuns(api) # {}
  /\ files # 0 /\ collections # 0

\* C27: every notification starts one run per registered handler and every
\* manual refresh one fetch, whatever is already in flight; the files list is
\* written only when a files() call resolves and is then that call's payload,
\* also when the call had been overtaken by one that started later.
FilesFetchResolved == hev.op \in {"initFiles", "handlerFiles", "refreshResolve"}

LastResolvedStored ==
  /\ (FilesFetchResolved /\ hookMounted = "yes") => files = hev.p
  /\ hev.op = "notify" =>
       Len(handlers) = hev.n + Cardinality(ListeningRuns(hev.router))
  /\ hev.op = "refresh" => Len(refreshes) = hev.n + 1

C27_LastResolvedWins ==
  /\ []LastResolvedStored
  /\ [][files' # files => hev'.op \in {"initFiles", "handlerFiles", "refreshResolve"}]_hookVars

\* the files() call of an earlier notification has resolved after that of a
\* later one and replaced its list
C27_Witness ==
  /\ hev.op = "handlerFiles" /\ hev.late
  /\ hookMounted = "yes"
  /\ files = hev.p /\ hev.was # hev.p

\* C33: every change, create or delete notification the host fires on the API
\* object useVersion('v1') has returned to the mounted hook starts a run of
\* handleFileChange, and with it a files() call, also while the files() or
\* collections() call of initializeAPI is still pending.
C33_NoNotificationMissed ==
  (hev.op \in {"notify", "unheard"} /\ hookMounted = "yes" /\ api = hev.router)
    => /\ Len(handlers) > hev.n
       /\ \A j \in (hev.n + 1)..Len(handlers) :
            handlers[j].api = hev.router /\ handlers[j].pc = "files"

\* C34: whenever the mounted hook exposes a usable connection (api non-null,
\* error null, loading false), a handler is registered on that API object for
\* each of change, create and delete.
C34_UsableMeansListening ==
  (hookMounted = "yes" /\ api # NoRouter /\ hookError = "null" /\ ~hookIsLoading)
    => \A e \in Events : apiListeners[api][e] > 0

(***************************************************************************)
(* Claims about CollectionBrowser                                          *)
(***************************************************************************)

\* C7: after any sequence of mounts, unmounts and replacements of the
\* collection prop, the collection object of every mounted instance has exactly
\* one handler for each of change, create and delete, and every other
\* collection object has none.
C7_OneHandlerPerMounted ==
  \A k \in Keys, v \in Versions, e \in Events :
    collListeners[k][v][e] = IF shown[k] = v THEN 1 ELSE 0

\* a collection prop was just replaced, after an earlier unmount, with every
\* key mounted
C7_Witness ==
  /\ cev.op = "replace" /\ cev.unmounted
  /\ \A k \in Keys : shown[k] # NotMounted

\* C21: a notification on the collection of a mounted CollectionBrowser starts
\* one items() query on that collection and none on another, also while
\* earlier queries are pending; the items of an instance are written only when
\* one of its queries resolves, and are then that query's value.
RequeriedAndStored ==
  /\ cev.op = "notify" =>
       /\ shown[cev.key] # NotMounted
       /\ Len(queries) = cev.n + 1
       /\ queries[Len(queries)] =
            [key |-> cev.key, ver |-> shown[cev.key], live |-> TRUE]
  /\ (cev.op = "items" /\ cev.live) => items[cev.key] = cev.p

C21_RequeryOnEveryNotification ==
  /\ []RequeriedAndStored
  /\ [][\A k \in Keys :
          items'[k] # items[k] =>
            \/ cev'.op = "items" /\ cev'.key = k
            \/ shown'[k] = NotMounted]_collVars

\* a notification has arrived while an earlier query of the same mounted
\* instance is still pending, after that instance had rendered a list
C21_Witness ==
  /\ cev.op = "notify" /\ cev.n >= 1
  /\ queries[1].key = cev.key /\ queries[1].live
  /\ items[cev.key] # Undefined

\* C22: what is displayed is a function of error, loading and the list: while
\* loading, and for a collection section also while its items are undefined,
\* the refresh control is disabled and the spinner is shown instead of the
\* tree; an empty list that is not loading shows the placeholder; with error
\* set FileBrowser shows Try Again and no tree.
C22_DisplayState ==
  /\ ~browserProps.error =>
       /\ BrowserView = "sections"
       /\ browserProps.isLoading => (FilesRefreshDisabled /\ FilesView = "spinner")
       /\ (~browserProps.isLoading /\ browserProps.files = 0) => FilesView = "placeholder"
       /\ \A k \in Keys :
            shown[k] # NotMounted =>
              LET loading == browserProps.isLoading \/ items[k] = Undefined IN
              /\ loading => (SectionRefreshDisabled(k) /\ SectionView(k) = "spinner")
              /\ (~loading /\ items[k] = 0) => SectionView(k) = "placeholder"
  /\ browserProps.error =>
       /\ BrowserView = "tryAgain"
       /\ \A k \in Keys : shown[k] = NotMounted

\* C35: once every host call has settled (and, with the notifications over,
\* nothing starts another), no loading indicator is left on: the hook's
\* isLoading is false, the editor's isLoading is false, and no mounted
\* collection section shows the spinner, whether the calls resolved or
\* rejected.
HookLoadingClears ==
  (hookMounted = "yes" /\ refreshes = <<>> /\ handlers = <<>>
     /\ \A i \in 1..Len(inits) : inits[i].pc = "listening")
    => ~hookIsLoading

EditorLoadingClears == pendingGets = <<>> => ~isLoading

SectionSpinnersClear ==
  \A k \in Keys :
    (shown[k] # NotMounted /\ ~browserProps.isLoading
       /\ \A i \in 1..Len(queries) : queries[i].key # k)
      => SectionView(k) # "spinner"

C35_IndicatorsClear ==
  /\ HookLoadingClears
  /\ EditorLoadingClears
  /\ SectionSpinnersClear

(***************************************************************************)
(* Claims about buildFileTree                                              *)
(***************************************************************************)

\* a path as spec section 3 describes it: segments joined by single separators
WellFormed(path) == Parts(path) # <<>> /\ JoinUpTo(Parts(path), Len(Parts(path))) = path

ValidInput(list) ==
  /\ \A r \in 1..Len(list) : WellFormed(list[r])
  /\ \A r, q \in 1..Len(list) : r # q => list[r] # list[q]

\* C8: the forest's file nodes are exactly the input paths, each once and each
\* carrying its record (stated here for lists of distinct well-formed paths).
C8_PathsPreserved ==
  (tree.state # "pending" /\ ValidInput(input)) =>
    /\ tree.state = "built"
    /\ LET all == Flatten(tree.forest)
           fileAt == {i \in 1..Len(all) : all[i].type = "file"}
       IN /\ \A r \in 1..Len(input) :
               Cardinality({i \in fileAt : all[i].path = input[r] /\ all[i].file = r}) = 1
          /\ Cardinality(fileAt) = Len(input)

\* C9: buildFileTree never raises an error; it always returns a forest.
C9_NeverThrows == tree.state # "threw"

\* C10: at every level all directories precede all files, and within each kind
\* the names ascend under localeCompare; recursively for every directory.
RECURSIVE OrderedForest(_)
OrderedForest(nodes) ==
  /\ \A i, j \in 1..Len(nodes) :
       i < j => /\ (nodes[i].type = "file" => nodes[j].type = "file")
                /\ (nodes[i].type = nodes[j].type
                      => LocaleCompare(nodes[i].name, nodes[j].name) <= 0)
  /\ \A i \in 1..Len(nodes) : OrderedForest(nodes[i].children)

C10_SiblingsOrdered == tree.state = "built" => OrderedForest(tree.forest)

\* a directory sorted ahead of a file that was registered first and whose name
\* compares lower
C10_Witness ==
  /\ tree.state = "built"
  /\ Len(tree.forest) = 2
  /\ tree.forest[1].type = "directory"
  /\ tree.forest[2].type = "file"
  /\ tree.forest[2].file = 1
  /\ LocaleCompare(tree.forest[2].name, tree.forest[1].name) < 0

EndsAt(n) ==
  {r \in 1..Len(input) :
     LET parts == Parts(input[r])
     IN parts # <<>> /\ JoinUpTo(parts, Len(parts)) = n.path}

PassesThrough(n) ==
  {r \in 1..Len(input) :
     LET parts == Parts(input[r])
     IN \E k \in 1..(Len(parts) - 1) : JoinUpTo(parts, k) = n.path}

UniquePaths(all) == \A i, j \in 1..Len(all) : all[i].path = all[j].path => i = j

Least(S) == CHOOSE r \in S : \A q \in S : r <= q

\* C12: in every returned forest a node is a file iff it is the last segment of
\* at least one record and carries the first of them, a node is a directory iff
\* some record has it as a non-terminal segment, and no two nodes share a path.
C12_KindsAndRecords ==
  tree.state = "built" =>
    LET all == Flatten(tree.forest) IN
    /\ \A i \in 1..Len(all) :
         /\ all[i].type = "file" <=>
              (EndsAt(all[i]) # {} /\ all[i].file = Least(EndsAt(all[i])))
         /\ all[i].type = "directory" <=> PassesThrough(all[i]) # {}
    /\ UniquePaths(all)

\* C12 as the specification words it: the last segment of exactly one record
C12_ExactlyOneRecord ==
  tree.state = "built" =>
    LET all == Flatten(tree.forest) IN
    /\ \A i \in 1..Len(all) :
         /\ all[i].type = "file" <=>
              (Cardinality(EndsAt(all[i])) = 1 /\ all[i].file \in EndsAt(all[i]))
         /\ all[i].type = "directory" <=> PassesThrough(all[i]) # {}
    /\ UniquePaths(all)

\* a forest with a directory and a file node that two records end at
C12_Witness ==
  /\ tree.state = "built"
  /\ LET all == Flatten(tree.forest) IN
     /\ \E i \in 1..Len(all) : all[i].type = "directory"
     /\ \E i \in 1..Len(all) :
          all[i].type = "file" /\ Cardinality(EndsAt(all[i])) = 2 /\ all[i].file = 1

\* the nodes registered once the first k records are processed (up to the
\* throw, if processing throws): their path, kind and record
RECURSIVE Registered(_)
Registered(nodes) ==
  UNION { {[path |-> nodes[i].path, type |-> nodes[i].type, file |-> nodes[i].file]}
            \cup (IF nodes[i].children = NoChildren THEN {}
                  ELSE Registered(nodes[i].children[1]))
          : i \in 1..Len(nodes) }

RegisteredAfter(k) == Registered(AddFiles(<<>>, SubSeq(input, 1, k), 1).nodes)

\* C13: a node keeps the kind and the record of its first registration: every
\* node registered after k records is there unchanged after k + 1, so a
\* directory is not turned into a file by a later record that ends at it, and
\* its children are kept.
C13_FirstRegistrationWins ==
  runs >= 1 =>
    /\ \A k \in 1..(Len(input) - 1) : RegisteredAfter(k) \subseteq RegisteredAfter(k + 1)
    /\ tree.state = "built" => Registered(AddFiles(<<>>, input, 1).nodes)
                                 = { [path |-> n.path, type |-> n.type, file |-> n.file]
                                     : n \in {Flatten(tree.forest)[i] : i \in 1..Len(Flatten(tree.forest))} }

\* a returned forest with a directory that a later record ends at, children kept
C13_Witness ==
  /\ tree.state = "built"
  /\ \E i \in 1..Len(tree.forest) :
       /\ tree.forest[i].type = "directory"
       /\ tree.forest[i].children # <<>>
       /\ EndsAt(tree.forest[i]) # {}
       /\ \A r \in EndsAt(tree.forest[i]) : \E q \in PassesThrough(tree.forest[i]) : q < r

\* a path without its empty segments: what leading, trailing and repeated
\* separators do not change
Normalized(path) == SelectSeq(Split(path), LAMBDA seg : seg # <<>>)

NormalizedPath(path) == JoinUpTo(Normalized(path), Len(Normalized(path)))

NodesAt(forest, path) ==
  {i \in 1..Len(Flatten(forest)) : Flatten(forest)[i].path = NormalizedPath(path)}

\* C14: paths that differ only in separators address one node, and a list
\* whose last record has a normalized path already present, as an earlier
\* record's or as a directory, gives the same result as the list without it.
C14_NormalizedAndReused ==
  runs >= 1 =>
    /\ tree.state = "built" =>
         \A r \in 1..Len(input) :
           Normalized(input[r]) # <<>> =>
             /\ Cardinality(NodesAt(tree.forest, input[r])) = 1
             /\ \A q \in 1..Len(input) :
                  Normalized(input[q]) = Normalized(input[r])
                    => NodesAt(tree.forest, input[q]) = NodesAt(tree.forest, input[r])
    /\ Len(input) >= 1 =>
         LET before == buildFileTree(SubSeq(input, 1, Len(input) - 1))
             last == input[Len(input)]
         IN (before.state = "built" /\ NodesAt(before.forest, last) # {}) => tree = before

\* a returned forest with a directory, whose last record spells an earlier
\* record's path with other separators
C14_Witness ==
  /\ tree.state = "built"
  /\ Len(input) >= 2
  /\ \E r \in 1..(Len(input) - 1) :
       /\ input[r] # input[Len(input)]
       /\ Normalized(input[r]) = Normalized(input[Len(input)])
       /\ Normalized(input[r]) # <<>>
  /\ \E i \in 1..Len(tree.forest) : tree.forest[i].type = "directory"

IndexIn(list, path) == CHOOSE r \in 1..Len(list) : list[r] = path

ExampleFile(name, path) ==
  [name |-> name, path |-> path, type |-> "file", children |-> <<>>,
   file |-> IndexIn(input, path)]

\* C15: for a/b.md, a/c.md and d.md in any order the root has two entries:
\* directory a holding the files b.md then c.md, followed by the file d.md.
C15_ExampleForest ==
  (runs >= 1 /\ input \in ExampleInputs) =>
    /\ tree.state = "built"
    /\ tree.forest =
         << [name |-> <<"a">>, path |-> <<"a">>, type |-> "directory", file |-> NoRecord,
             children |->
               << ExampleFile(<<"b", ".", "m", "d">>, <<"a", "/", "b", ".", "m", "d">>),
                  ExampleFile(<<"c", ".", "m", "d">>, <<"a", "/", "c", ".", "m", "d">>) >>],
            ExampleFile(<<"d", ".", "m", "d">>, <<"d", ".", "m", "d">>) >>

\* the forest built from the order d.md, a/c.md, a/b.md
C15_Witness ==
  /\ tree.state = "built"
  /\ input = << <<"d", ".", "m", "d">>, <<"a", "/", "c", ".", "m", "d">>,
                <<"a", "/", "b", ".", "m", "d">> >>

(***************************************************************************)
(* Claims about FileTreeItem                                               *)
(***************************************************************************)

\* C19: a click on a file node calls the selection callback exactly once, with
\* the record whose path equals the node's path, and the clicked node is then
\* the one highlighted item of its tree.
C19_ClickSelectsRecord ==
  tev.op = "file" =>
    /\ Len(tev.calls) = 1
    /\ input[tev.calls[1]] = tev.path
    /\ treeSelected = tev.calls[1]
    /\ \A i \in 1..Len(Flatten(tree.forest)) :
         Rendered(i) => (IsSelected(Item(i)) <=> Item(i).path = tev.path)

\* C20: a click on a directory node flips that node's flag, leaves the flag of
\* every other node as it last was, leaves the selection alone and calls no
\* selection callback; a click on a file node changes no flag.
C20_ClickTogglesOnlyItself ==
  /\ tev.op = "directory" =>
       /\ (tev.path \in expanded) = ~tev.wasExpanded
       /\ ~tev.othersChanged
       /\ treeSelected = tev.wasSelected
       /\ tev.calls = <<>>
  /\ tev.op = "file" =>
       /\ (tev.path \in expanded) = tev.wasExpanded
       /\ ~tev.othersChanged

\* the directories of a forest with their nesting depth, the roots at depth d
RECURSIVE DirectoriesAt(_, _)
DirectoriesAt(nodes, d) ==
  UNION { (IF nodes[i].type = "directory" THEN {<<nodes[i].path, d>>} ELSE {})
            \cup DirectoriesAt(nodes[i].children, d + 1)
          : i \in 1..Len(nodes) }

\* the directories strictly below the node with the given path
RECURSIVE DirectoriesBelow(_, _, _)
DirectoriesBelow(nodes, path, d) ==
  UNION { IF nodes[i].path = path THEN DirectoriesAt(nodes[i].children, d + 1)
          ELSE DirectoriesBelow(nodes[i].children, path, d + 1)
          : i \in 1..Len(nodes) }

\* C25: a directory item that has just been created, by the first render or
\* by expanding an ancestor, is expanded when its nesting level is 0 or 1 and
\* collapsed when it is 2 or more.
C25_ExpandedByLevel ==
  LET fresh == IF tev.op = "none" /\ runs >= 1 THEN DirectoriesAt(tree.forest, 0)
               ELSE IF tev.op = "directory" /\ ~tev.wasExpanded
               THEN DirectoriesBelow(tree.forest, tev.path, 0)
               ELSE {}
  IN \A x \in fresh : x[1] \in mounted => (x[1] \in expanded <=> x[2] < 2)

\* a collapsed directory at level 2 has just been expanded and its items
\* created: a directory below it, at level 3, is rendered collapsed, while
\* the directories at levels 0 and 1 are expanded
C25_Witness ==
  /\ tev.op = "directory" /\ ~tev.wasExpanded
  /\ \E x \in DirectoriesBelow(tree.forest, tev.path, 0) :
       x[2] = 3 /\ x[1] \in mounted /\ x[1] \notin expanded
  /\ \E x \in DirectoriesAt(tree.forest, 0) : x[2] = 1 /\ x[1] \in expanded

(***************************************************************************)
(* Specifications: one per component, the others held at their start       *)
(***************************************************************************)
vars == <<edVars, hookVars, collVars, treeVars, uncaught>>

HookIdle == HookInit /\ winRouter = NoRouter

notEd == <<hookVars, collVars, treeVars, uncaught>>
notHook == <<edVars, collVars, treeVars>>
notColl == <<edVars, hookVars, treeVars>>
notTree == <<edVars, hookVars, collVars, uncaught>>

\* CodeEditor
Next ==
  \/ (\E f \in FileIds : SelectFile(f)) /\ UNCHANGED notEd
  \/ (\E i \in 1..Len(pendingGets), c \in Contents : GetResolve(i, c))
       /\ UNCHANGED notEd
  \/ (\E i \in 1..Len(pendingGets) : GetReject(i)) /\ UNCHANGED notEd
  \/ EditorDidMount /\ UNCHANGED notEd
  \/ (\E c \in Contents : Edit(c)) /\ UNCHANGED notEd
  \/ ClickSave /\ UNCHANGED notEd
  \/ PressShortcut /\ UNCHANGED notEd
  \/ (\E i \in 1..Len(pendingSaves) : SaveResolve(i)) /\ UNCHANGED notEd
  \/ (\E i \in 1..Len(pendingSaves) : SaveReject(i)) /\ UNCHANGED notEd
  \/ (\E i \in 1..Len(timers) : TimerFires(i)) /\ UNCHANGED notEd

Init == EdInit /\ HookIdle /\ CollInit /\ TreeIdle /\ uncaught = {}

Spec == Init /\ [][Next]_vars

\* useCloudCannonAPI
NextHook ==
  \/ (\E o \in UseVersionOutcomes : Mount(o)) /\ UNCHANGED notHook
  \/ (\E r \in Routers, o \in UseVersionOutcomes : Announce(r, o))
       /\ UNCHANGED notHook
  \/ Unmount /\ UNCHANGED notHook
  \/ (\E i \in 1..Len(inits), p \in Lists : InitFilesResolve(i, p))
       /\ UNCHANGED notHook
  \/ (\E i \in 1..Len(inits), p \in Lists : InitCollectionsResolve(i, p))
       /\ UNCHANGED notHook
  \/ (\E i \in 1..Len(inits) : InitReject(i)) /\ UNCHANGED notHook
  \/ (\E a \in Routers, e \in Events : Notify(a, e)) /\ UNCHANGED notHook
  \/ (\E a \in Routers, e \in Events : NotifyUnheard(a, e)) /\ UNCHANGED notHook
  \/ (\E i \in 1..Len(handlers), p \in Lists : HandlerFilesResolve(i, p))
       /\ UNCHANGED notHook
  \/ (\E i \in 1..Len(handlers), p \in Lists : HandlerCollectionsResolve(i, p))
       /\ UNCHANGED notHook
  \/ (\E i \in 1..Len(handlers) : HandlerReject(i)) /\ UNCHANGED notHook
  \/ RefreshFiles /\ UNCHANGED notHook
  \/ (\E i \in 1..Len(refreshes), p \in Lists : RefreshResolve(i, p))
       /\ UNCHANGED notHook
  \/ (\E i \in 1..Len(refreshes) : RefreshReject(i)) /\ UNCHANGED notHook

InitHook == HookInit /\ EdInit /\ CollInit /\ TreeIdle /\ uncaught = {}

SpecHook == InitHook /\ [][NextHook]_vars

\* CollectionBrowser
NextColl ==
  \/ (\E k \in Keys, v \in Versions : CollMount(k, v)) /\ UNCHANGED notColl
  \/ (\E k \in Keys : CollUnmount(k)) /\ UNCHANGED notColl
  \/ (\E k \in Keys, v \in Versions : CollReplace(k, v)) /\ UNCHANGED notColl
  \/ (\E k \in Keys, v \in Versions, e \in Events : CollNotify(k, v, e))
       /\ UNCHANGED notColl
  \/ (\E i \in 1..Len(queries), p \in Lists : ItemsResolve(i, p))
       /\ UNCHANGED notColl
  \/ (\E i \in 1..Len(queries) : ItemsReject(i)) /\ UNCHANGED notColl
  \/ (\E l \in BOOLEAN, e \in BOOLEAN, f \in Lists : FileBrowserRender(l, e, f))
       /\ UNCHANGED notColl

InitColl == CollInit /\ EdInit /\ HookIdle /\ TreeIdle /\ uncaught = {}

SpecColl == InitColl /\ [][NextColl]_vars

\* buildFileTree
NextTree ==
  \/ Render /\ UNCHANGED notTree

InitTree == TreeInit /\ EdInit /\ HookIdle /\ CollInit /\ uncaught = {}

SpecTree == InitTree /\ [][NextTree]_vars

\* FileTree and its items
NextItems ==
  \/ (runs = 0 /\ Render) /\ UNCHANGED notTree
  \/ (\E i \in 1..Len(Flatten(tree.forest)) : ClickDirectory(i)) /\ UNCHANGED notTree
  \/ (\E i \in 1..Len(Flatten(tree.forest)) : ClickFile(i)) /\ UNCHANGED notTree

SpecItems == InitTree /\ [][NextItems]_vars

=============================================================================
